---- MODULE Spec2Model ----
(***************************************************************************)
(* The TaxiFare Predictor page (src/app.py): the Location Resolver         *)
(* (geocode_address, get_address_suggestions), the per-session location    *)
(* state, and the fare submission.                                         *)
(*                                                                         *)
(* Coordinates are integers in micro-degrees (the number inputs use the    *)
(* format "%.6f"); fares are integers in thousandths of a dollar.  An      *)
(* address is a sequence of one-character strings.                         *)
(*                                                                         *)
(* One script run of the page is the sequence of steps                     *)
(*   address(pickup), search(pickup), numbers(pickup),                     *)
(*   address(dropoff), search(dropoff), numbers(dropoff), fare             *)
(* started by one user action; st.rerun() restarts it from the top.        *)
(***************************************************************************)
EXTENDS Integers, Sequences, FiniteSets, TLC

VARIABLES
    sess,      \* st.session_state: the two locations and the two address texts
    wText,     \* the two text_input widgets (identity and current value)
    wNum,      \* the four number_input widgets
    shown,     \* the suggestion buttons rendered by the last run, per location
    event,     \* the user action that triggered the current run
    pc,        \* position of the script run ("idle": waiting for the user)
    side,      \* the location block the run is in
    geo,       \* the geocode_address invocation in progress, or just returned
    sug,       \* the last direct get_address_suggestions invocation
    msgs,      \* what the run has displayed so far (st.success/warning/error)
    fareOut,   \* outcome of the fare submission of this run
    lastSet    \* history: coordinates set by the latest location-setting action

vars == <<sess, wText, wNum, shown, event, pc, side, geo, sug, msgs, fareOut, lastSet>>

-----------------------------------------------------------------------------
(* Bounds and input sets                                                   *)

MaxLen == 3

Chars == {"a", " "}
Texts == UNION {[1..n -> Chars] : n \in 0..MaxLen}
TypedTexts == UNION {[1..n -> {"a"}] : n \in 0..MaxLen}

Locs == {"pickup", "dropoff"}
Fields == {"lat", "lon"}

-----------------------------------------------------------------------------
(* Program constants                                                       *)

LAT_MIN == 40500000
LAT_MAX == 41000000
LON_MIN == -74300000
LON_MAX == -73700000

DEFAULT_PICKUP_LAT == 40783282
DEFAULT_PICKUP_LON == -73950655
DEFAULT_DROPOFF_LAT == 40769802
DEFAULT_DROPOFF_LON == -73984365

MIN_GEOCODE_LEN == 2
MIN_SUGGEST_LEN == 3
MAX_SHOWN == 5

None == <<>>

-----------------------------------------------------------------------------
(* The geocoding provider: what one geolocator.geocode call can do          *)

TimesSquare == <<"T", "i", "m", "e", "s", " ", "S", "q">>

NoLocation == [latitude |-> 0, longitude |-> 0, address |-> <<>>]

Candidates ==
    { [latitude |-> 40758000, longitude |-> -73985500, address |-> TimesSquare],
      [latitude |-> 41000001, longitude |-> -73985500, address |-> TimesSquare],
      [latitude |-> 40758000, longitude |-> -74300001, address |-> TimesSquare],
      [latitude |-> 42000000, longitude |-> -71000000, address |-> TimesSquare] }

ErrorTexts ==
    { <<"Connection", "refused">>, <<"Max", "retries", "exceeded">>,
      <<"Service", "error">> }

NoOutcome == [kind |-> "none", location |-> NoLocation, exc |-> "none", text |-> <<>>]

GeoOutcomes ==
    { [kind |-> "location", location |-> c, exc |-> "none", text |-> <<>>] :
          c \in Candidates }
    \cup { [kind |-> "nothing", location |-> NoLocation, exc |-> "none", text |-> <<>>] }
    \cup { [kind |-> "raise", location |-> NoLocation, exc |-> "GeocoderTimedOut",
            text |-> <<"Service", "timed", "out">>] }
    \cup { [kind |-> "raise", location |-> NoLocation, exc |-> "ConnectionError",
            text |-> <<"Connection", "refused">>] }
    \cup { [kind |-> "raise", location |-> NoLocation, exc |-> "OSError",
            text |-> <<"Network", "unreachable">>] }
    \cup { [kind |-> "raise", location |-> NoLocation, exc |-> "Exception", text |-> t] :
          t \in ErrorTexts }

-----------------------------------------------------------------------------
(* Strings                                                                 *)

RECURSIVE lstrip(_)
lstrip(s) ==
    IF s = <<>> THEN s
    ELSE IF Head(s) = " " THEN lstrip(Tail(s)) ELSE s

RECURSIVE rstrip(_)
rstrip(s) ==
    IF s = <<>> THEN s
    ELSE IF s[Len(s)] = " " THEN rstrip(SubSeq(s, 1, Len(s) - 1)) ELSE s

strip(s) == rstrip(lstrip(s))

lower(w) ==
    CASE w = "Connection" -> "connection"
      [] w = "Max" -> "max"
      [] w = "Service" -> "service"
      [] w = "Network" -> "network"
      [] OTHER -> w

\* 'connection' in error_msg or 'max retries' in error_msg
ConnectionRelated(text) ==
    \/ \E i \in 1..Len(text) : lower(text[i]) = "connection"
    \/ \E i \in 1..(Len(text) - 1) :
          lower(text[i]) = "max" /\ lower(text[i + 1]) = "retries"

-----------------------------------------------------------------------------
(* Messages                                                                *)

WARN_TIMED_OUT == "Geocoding timed out. Please try again."
ERR_UNAVAILABLE == "Geocoding service unavailable."
ERR_CANNOT_CONNECT == "Cannot connect to geocoding service."
WARN_GEOCODING_ERROR == "Geocoding error"
ERR_NOT_FOUND == "Address not found. Try a different query."
ERR_VALUE_RANGE == "StreamlitAPIException"

-----------------------------------------------------------------------------
(* geocode_address (lines 40-88)                                           *)

\* Mutant: the length test without strip()
TooShort_NoStrip(address) ==
    address = <<>> \/ Len(address) < MIN_GEOCODE_LEN

\* line 42: not address or len(address.strip()) < 2
TooShort(address) ==
    address = <<>> \/ Len(strip(address)) < MIN_GEOCODE_LEN

\* lines 50-55: the reformulations, in the order they are tried
queries(address) ==
    << address \o <<", New York City, USA">>,
       address \o <<", Manhattan, New York, USA">>,
       address \o <<", NYC">>,
       address >>

\* Mutant: the longitude test forgotten
InNYC_LatitudeOnly(location) ==
    LAT_MIN <= location.latitude /\ location.latitude <= LAT_MAX

\* line 66: the candidate is in the NYC area
InNYC(location) ==
    /\ LAT_MIN <= location.latitude /\ location.latitude <= LAT_MAX
    /\ LON_MIN <= location.longitude /\ location.longitude <= LON_MAX

\* lines 67-71: the returned dict
Coords(location) ==
    [lat |-> location.latitude, lon |-> location.longitude,
     address |-> location.address]

\* lines 75-88: the except clauses; what each displays before returning None
HandlerMessage(o) ==
    IF o.exc = "GeocoderTimedOut" THEN WARN_TIMED_OUT
    ELSE IF o.exc = "ConnectionError" THEN ERR_UNAVAILABLE
    ELSE IF ConnectionRelated(o.text) THEN ERR_CANNOT_CONNECT
    ELSE WARN_GEOCODING_ERROR

NoGeo ==
    [status |-> "none", address |-> <<>>, i |-> 1, calls |-> <<>>,
     last |-> NoOutcome, ret |-> None, emitted |-> <<>>]

\* lines 42-55: entry; a too short address returns None before any call
geocode_enter(address) ==
    IF TooShort(address)
    THEN [NoGeo EXCEPT !.status = "returned", !.address = address]
    ELSE [NoGeo EXCEPT !.status = "running", !.address = address]

\* line 64: `if location:` continues the loop on an empty answer, and
\* line 66 on a candidate outside the box; line 73 ends it after the last query
Continue(g, o) ==
    IF g.i = Len(queries(g.address))
    THEN [g EXCEPT !.status = "returned", !.ret = None,
                   !.calls = Append(g.calls, queries(g.address)[g.i]), !.last = o]
    ELSE [g EXCEPT !.i = g.i + 1,
                   !.calls = Append(g.calls, queries(g.address)[g.i]), !.last = o]

\* Mutant: the loop stops at the first query that returns a candidate,
\* whether or not it is inside the box
GeoStep_FirstCandidate(g, o) ==
    IF o.kind = "raise"
    THEN [g EXCEPT !.status = "returned", !.ret = None,
                   !.calls = Append(g.calls, queries(g.address)[g.i]), !.last = o,
                   !.emitted = Append(g.emitted, HandlerMessage(o))]
    ELSE IF o.kind = "location"
    THEN [g EXCEPT !.status = "returned",
                   !.ret = IF InNYC(o.location) THEN <<Coords(o.location)>> ELSE None,
                   !.calls = Append(g.calls, queries(g.address)[g.i]), !.last = o]
    ELSE Continue(g, o)

\* lines 57-88: one iteration of the loop, with the provider's answer o
GeoStep(g, o) ==
    IF o.kind = "raise"
    THEN [g EXCEPT !.status = "returned", !.ret = None,
                   !.calls = Append(g.calls, queries(g.address)[g.i]), !.last = o,
                   !.emitted = Append(g.emitted, HandlerMessage(o))]
    ELSE IF o.kind = "location" /\ InNYC(o.location)
    THEN [g EXCEPT !.status = "returned", !.ret = <<Coords(o.location)>>,
                   !.calls = Append(g.calls, queries(g.address)[g.i]), !.last = o]
    ELSE Continue(g, o)

-----------------------------------------------------------------------------
(* get_address_suggestions (lines 90-123)                                  *)

\* line 92: not query or len(query) < 3
SuggestTooShort(query) ==
    query = <<>> \/ Len(query) < MIN_SUGGEST_LEN

\* line 110
SuggestionInNYC(location) ==
    /\ LAT_MIN <= location.latitude /\ location.latitude <= LAT_MAX
    /\ LON_MIN <= location.longitude /\ location.longitude <= LON_MAX

\* Mutant: only the first except clause (ConnectionError, OSError)
SuggestCaught_ConnectionOnly(o) ==
    o.exc \in {"ConnectionError", "OSError"}

\* lines 116-121: both except clauses pass; nothing escapes, nothing is shown
SuggestCaught(o) ==
    \/ o.exc \in {"ConnectionError", "OSError"}
    \/ o.exc \in {"GeocoderTimedOut", "Exception"}

NoSug ==
    [status |-> "none", query |-> <<>>, calls |-> <<>>, last |-> NoOutcome,
     ret |-> <<>>, raised |-> FALSE, emitted |-> <<>>]

\* lines 90-123, with the provider's answer o to the single query
get_address_suggestions(query, o) ==
    IF SuggestTooShort(query)
    THEN [NoSug EXCEPT !.status = "returned", !.query = query]
    ELSE LET called == [NoSug EXCEPT !.status = "returned", !.query = query,
                                     !.calls = <<query \o <<", New York City">> >>,
                                     !.last = o]
         IN  IF o.kind = "raise"
             THEN IF SuggestCaught(o) THEN called
                  ELSE [called EXCEPT !.raised = TRUE]
             ELSE IF o.kind = "location" /\ SuggestionInNYC(o.location)
             THEN [called EXCEPT !.ret =
                      << [display_name |-> o.location.address,
                          lat |-> o.location.latitude,
                          lon |-> o.location.longitude] >>]
             ELSE called

-----------------------------------------------------------------------------
(* The widgets.  A widget's identity includes its `value` argument: a call *)
(* with the arguments of the widget already on the page returns what the   *)
(* user entered there, a call with another `value` makes a new widget that *)
(* starts at that value.                                                   *)

AbsentText == [live |-> FALSE, id |-> <<>>, val |-> <<>>]
AbsentNumber == [live |-> FALSE, id |-> 0, val |-> 0]
AbsentNumbers == [f \in Fields |-> AbsentNumber]

\* st.text_input(..., value=value, key=...) (lines 151-156, 205-210)
text_input(w, value) ==
    IF w.live /\ w.id = value THEN w
    ELSE [live |-> TRUE, id |-> value, val |-> value]

\* st.number_input(..., value=value, key=...) (lines 184-194, 238-248)
number_input(w, value) ==
    IF w.live /\ w.id = value THEN w
    ELSE [live |-> TRUE, id |-> value, val |-> value]

\* lines 128-135: the coordinates a session starts with
DefaultCoord(loc, f) ==
    IF loc = "pickup"
    THEN (IF f = "lat" THEN DEFAULT_PICKUP_LAT ELSE DEFAULT_PICKUP_LON)
    ELSE (IF f = "lat" THEN DEFAULT_DROPOFF_LAT ELSE DEFAULT_DROPOFF_LON)

\* Mutant: the fields are built with the fixed default, not the session value
ValueArg_Default(s, loc, f) == DefaultCoord(loc, f)

\* value=st.session_state.<loc>_<f> (lines 185, 191, 239, 245)
ValueArg(s, loc, f) == IF f = "lat" THEN s[loc].lat ELSE s[loc].lon

\* Mutant: no min_value / max_value
InputRange_Unbounded(f, v) == TRUE

\* min_value / max_value of the number inputs (lines 187, 193, 241, 247)
InputRange(f, v) ==
    IF f = "lat" THEN LAT_MIN <= v /\ v <= LAT_MAX
    ELSE LON_MIN <= v /\ v <= LON_MAX

\* what the user may type into a coordinate field
NumberEntries(f) ==
    IF f = "lat" THEN {40600000, 42000000}
    ELSE {-73985500, -75000000}

NoEvent == [type |-> "none", loc |-> "pickup", label |-> <<>>, coords |-> None]

Min(a, b) == IF a <= b THEN a ELSE b

-----------------------------------------------------------------------------
(* The prediction provider and the fare submission (lines 272-295)         *)

Absent == [t |-> "absent", n |-> 0]
Null == [t |-> "null", n |-> 0]
Number(n) == [t |-> "number", n |-> n]
String == [t |-> "string", n |-> 0]

NoBody == [valid |-> FALSE, isdict |-> FALSE, fare |-> Absent, fare_amount |-> Absent]
Dict(fare, fare_amount) ==
    [valid |-> TRUE, isdict |-> TRUE, fare |-> fare, fare_amount |-> fare_amount]

Payloads ==
    { Dict(Number(12345), Absent),        \* {"fare": 12.345}
      Dict(Absent, Number(9100)),         \* {"fare_amount": 9.1}
      Dict(Absent, Absent),               \* {"other": 1}
      Dict(Number(2675), Number(9100)),   \* both keys
      Dict(String, Absent),               \* {"fare": "12.5"}
      Dict(Null, Number(9100)),           \* {"fare": null, "fare_amount": 9.1}
      [NoBody EXCEPT !.valid = TRUE] }    \* a JSON list

Responses ==
    { [exc |-> e, status |-> 0, body |-> NoBody] : e \in {"Timeout", "ConnectionError"} }
    \cup { [exc |-> "none", status |-> 500, body |-> Dict(Absent, Absent)] }
    \cup { [exc |-> "none", status |-> 200, body |-> NoBody] }
    \cup { [exc |-> "none", status |-> 200, body |-> b] : b \in Payloads }

\* Mutant: the status is not looked at
raise_for_status_Never(status) == FALSE

\* response.raise_for_status() (line 285)
raise_for_status(status) == 400 <= status /\ status < 600

\* dict.get(key, default)
get(v, default) == IF v.t = "absent" THEN default ELSE v

\* The thousandths whose nearest double lies above them (12.345 is stored as
\* 12.3450000000000006...; 2.675 as 2.67499999999999982...).
DoubleAbove == {12345}

\* round(fare, 2) of a float, in thousandths: to the nearest hundredth of the
\* stored double; an exactly stored tie (a multiple of 1/8) goes to the even one
round2(n) ==
    LET q == n \div 10
        r == n % 10
    IN  IF r < 5 THEN q * 10
        ELSE IF r > 5 THEN (q + 1) * 10
        ELSE IF n % 125 = 0 THEN (IF q % 2 = 0 THEN q * 10 ELSE (q + 1) * 10)
        ELSE IF n \in DoubleAbove THEN (q + 1) * 10
        ELSE q * 10

NoParams ==
    [pickup_longitude |-> 0, pickup_latitude |-> 0,
     dropoff_longitude |-> 0, dropoff_latitude |-> 0]

NoResponse == [exc |-> "none", status |-> 0, body |-> NoBody]

NoFare ==
    [kind |-> "none", calls |-> 0, params |-> NoParams, resp |-> NoResponse,
     display |-> 0, payload |-> NoBody, cause |-> "none"]

\* lines 274-281
Params(s) ==
    [pickup_longitude |-> s["pickup"].lon, pickup_latitude |-> s["pickup"].lat,
     dropoff_longitude |-> s["dropoff"].lon, dropoff_latitude |-> s["dropoff"].lat]

\* lines 283-295: the one requests.get and what is displayed for its answer
request_fare(params, resp) ==
    LET sent == [NoFare EXCEPT !.calls = 1, !.params = params, !.resp = resp]
        data == resp.body
        fare == get(data.fare, get(data.fare_amount, Null))
    IN  IF resp.exc # "none"
        THEN [sent EXCEPT !.kind = "request failed", !.cause = resp.exc]
        ELSE IF raise_for_status(resp.status)
        THEN [sent EXCEPT !.kind = "request failed", !.cause = "HTTPError"]
        ELSE IF ~data.valid
        THEN [sent EXCEPT !.kind = "request failed", !.cause = "JSONDecodeError"]
        ELSE IF ~data.isdict
        THEN [sent EXCEPT !.kind = "raised", !.cause = "AttributeError",
                          !.payload = data]
        ELSE IF fare.t # "null"
        THEN IF fare.t = "number"
             THEN [sent EXCEPT !.kind = "success", !.display = round2(fare.n),
                               !.payload = data]
             ELSE [sent EXCEPT !.kind = "raised", !.cause = "TypeError",
                               !.payload = data]
        ELSE [sent EXCEPT !.kind = "unexpected response", !.payload = data]

-----------------------------------------------------------------------------
(* The session                                                             *)

\* lines 128-139, and the page as first rendered from them
Init ==
    /\ sess = [l \in Locs |->
                 [lat |-> DefaultCoord(l, "lat"), lon |-> DefaultCoord(l, "lon"),
                  address_text |-> <<>>]]
    /\ wText = [l \in Locs |-> text_input(AbsentText, <<>>)]
    /\ wNum = [l \in Locs |-> [f \in Fields |->
                 number_input(AbsentNumber, DefaultCoord(l, f))]]
    /\ shown = [l \in Locs |-> <<>>]
    /\ event = NoEvent
    /\ pc = "idle"
    /\ side = "pickup"
    /\ geo = NoGeo
    /\ sug = NoSug
    /\ msgs = <<>>
    /\ fareOut = NoFare
    /\ lastSet = [l \in Locs |->
                 [lat |-> DefaultCoord(l, "lat"), lon |-> DefaultCoord(l, "lon")]]

\* A user action starts a script run from the top of the page.
StartRun(e) ==
    /\ event' = e
    /\ pc' = "address"
    /\ side' = "pickup"
    /\ msgs' = <<>>
    /\ fareOut' = NoFare
    /\ geo' = NoGeo

\* The user changes the text of an address field.
TypeAddress(loc, t) ==
    /\ pc = "idle"
    /\ wText[loc].live
    /\ t # wText[loc].val
    /\ wText' = [wText EXCEPT ![loc].val = t]
    /\ StartRun([NoEvent EXCEPT !.type = "text", !.loc = loc])
    /\ UNCHANGED <<sess, wNum, shown, sug, lastSet>>

\* The user enters v in a coordinate field; the field refuses a value outside
\* its min_value..max_value, and no run starts.
EditNumber(loc, f, v) ==
    /\ pc = "idle"
    /\ wNum[loc][f].live
    /\ v # wNum[loc][f].val
    /\ IF InputRange(f, v)
       THEN /\ wNum' = [wNum EXCEPT ![loc][f].val = v]
            /\ lastSet' = [lastSet EXCEPT ![loc][f] = v]
            /\ StartRun([NoEvent EXCEPT !.type = "number", !.loc = loc])
            /\ UNCHANGED <<sess, wText, shown, sug>>
       ELSE /\ event' = [NoEvent EXCEPT !.type = "rejected", !.loc = loc]
            /\ UNCHANGED <<sess, wText, wNum, shown, pc, side, geo, sug, msgs,
                           fareOut, lastSet>>

\* The user presses one of the suggestion buttons on the page.
ClickSuggestion(loc) ==
    /\ pc = "idle"
    /\ \E i \in 1..Len(shown[loc]) :
          StartRun([NoEvent EXCEPT !.type = "suggestion", !.loc = loc,
                                   !.label = shown[loc][i].display_name])
    /\ UNCHANGED <<sess, wText, wNum, shown, sug, lastSet>>

ClickSearch(loc) ==
    /\ pc = "idle"
    /\ StartRun([NoEvent EXCEPT !.type = "search", !.loc = loc])
    /\ UNCHANGED <<sess, wText, wNum, shown, sug, lastSet>>

ClickFare ==
    /\ pc = "idle"
    /\ StartRun([NoEvent EXCEPT !.type = "fare"])
    /\ UNCHANGED <<sess, wText, wNum, shown, sug, lastSet>>

\* st.rerun() in the block of loc (lines 170, 178, 224, 232): the run ends here
\* and counts as complete, so the widgets it has not reached are forgotten;
\* the script starts again from the top with no button pressed.
\* w is the address field of loc as this run rendered it; coords is what the
\* Search handler resolved (None for a suggestion), remembered for the new run.
Rerun(loc, coords, w) ==
    /\ wText' = [l \in Locs |->
                   IF l = loc THEN w
                   ELSE IF l = "pickup" THEN wText[l]
                   ELSE AbsentText]
    /\ wNum' = [l \in Locs |->
                   IF l = "pickup" /\ loc = "dropoff" THEN wNum[l] ELSE AbsentNumbers]
    /\ event' = [NoEvent EXCEPT !.type = "rerun", !.loc = loc, !.coords = coords]
    /\ pc' = "address"
    /\ side' = "pickup"
    /\ msgs' = <<>>

\* An exception that reaches the top of the script: the run stops there.
Abort(what) ==
    /\ pc' = "idle"
    /\ side' = "pickup"
    /\ event' = NoEvent
    /\ msgs' = Append(msgs, what)

\* lines 151-170 (pickup), 205-224 (dropoff): the address field, the
\* suggestions for its text and the suggestion buttons
Address(loc) ==
    /\ pc = "address"
    /\ side = loc
    /\ LET w == text_input(wText[loc], sess[loc].address_text)
           address == w.val
       IN  \E o \in (IF address # <<>> /\ Len(address) > 2 THEN GeoOutcomes
                     ELSE {NoOutcome}) :
           LET r == IF address # <<>> /\ Len(address) > 2
                    THEN get_address_suggestions(address, o)
                    ELSE NoSug
               suggestions == SubSeq(r.ret, 1, Min(Len(r.ret), MAX_SHOWN))
               pressed == { i \in 1..Len(suggestions) :
                               /\ event.type = "suggestion"
                               /\ event.loc = loc
                               /\ event.label = suggestions[i].display_name }
           IN  IF r.raised
               THEN /\ Abort("Exception")
                    /\ wText' = [wText EXCEPT ![loc] = w]
                    /\ sess' = [sess EXCEPT ![loc].address_text = address]
                    /\ UNCHANGED <<wNum, shown, geo, sug, fareOut, lastSet>>
               ELSE IF pressed # {}
               THEN LET sugg == suggestions[CHOOSE i \in pressed :
                                               \A j \in pressed : i <= j]
                    IN  /\ sess' = [sess EXCEPT ![loc] =
                                      [lat |-> sugg.lat, lon |-> sugg.lon,
                                       address_text |-> sugg.display_name]]
                        /\ lastSet' = [lastSet EXCEPT ![loc] =
                                      [lat |-> sugg.lat, lon |-> sugg.lon]]
                        /\ shown' = [shown EXCEPT ![loc] = suggestions]
                        /\ Rerun(loc, None, w)
                        /\ UNCHANGED <<geo, sug, fareOut>>
               ELSE /\ wText' = [wText EXCEPT ![loc] = w]
                    /\ sess' = [sess EXCEPT ![loc].address_text = address]
                    /\ shown' = [shown EXCEPT ![loc] = suggestions]
                    /\ pc' = IF event.type = "search" /\ event.loc = loc
                             THEN "search" ELSE "numbers"
                    /\ UNCHANGED <<wNum, event, side, geo, sug, msgs, fareOut, lastSet>>

\* lines 172-173 (pickup), 226-227 (dropoff): the Search button
Search(loc) ==
    /\ pc = "search"
    /\ side = loc
    /\ event.type = "search" /\ event.loc = loc
    /\ geo' = geocode_enter(wText[loc].val)
    /\ pc' = "geo"
    /\ UNCHANGED <<sess, wText, wNum, shown, event, side, sug, msgs, fareOut, lastSet>>

\* lines 57-88: one query of geocode_address to the provider
GeoQuery ==
    /\ pc \in {"geo", "call"}
    /\ geo.status = "running"
    /\ \E o \in GeoOutcomes : geo' = GeoStep(geo, o)
    /\ UNCHANGED <<sess, wText, wNum, shown, event, pc, side, sug, msgs, fareOut, lastSet>>

\* lines 174-180 (pickup), 228-234 (dropoff): what the Search handler does
\* with the value geocode_address returned
SearchReturn(loc) ==
    /\ pc = "geo"
    /\ side = loc
    /\ geo.status = "returned"
    /\ IF geo.ret # None
       THEN LET coords == geo.ret[1]
            IN  /\ sess' = [sess EXCEPT ![loc].lat = coords.lat,
                                        ![loc].lon = coords.lon]
                /\ lastSet' = [lastSet EXCEPT ![loc] =
                                  [lat |-> coords.lat, lon |-> coords.lon]]
                /\ Rerun(loc, geo.ret, wText[loc])
                /\ UNCHANGED <<shown, sug, fareOut>>
       ELSE /\ msgs' = (msgs \o geo.emitted) \o <<ERR_NOT_FOUND>>
            /\ pc' = "numbers"
            /\ UNCHANGED <<sess, wText, wNum, shown, event, side, sug,
                           fareOut, lastSet>>
    /\ geo' = NoGeo

\* lines 182-199 (pickup), 236-253 (dropoff): the two coordinate fields and
\* "Update session state if values changed"
Numbers(loc) ==
    /\ pc = "numbers"
    /\ side = loc
    /\ IF ~InputRange("lat", sess[loc].lat) \/ ~InputRange("lon", sess[loc].lon)
       THEN /\ Abort(ERR_VALUE_RANGE)
            /\ UNCHANGED <<sess, wNum, geo>>
       ELSE LET lat == number_input(wNum[loc]["lat"], ValueArg(sess, loc, "lat"))
                lon == number_input(wNum[loc]["lon"], ValueArg(sess, loc, "lon"))
            IN  /\ wNum' = [wNum EXCEPT ![loc] =
                               [f \in Fields |-> IF f = "lat" THEN lat ELSE lon]]
                /\ IF lat.val # sess[loc].lat \/ lon.val # sess[loc].lon
                   THEN sess' = [sess EXCEPT ![loc].lat = lat.val,
                                             ![loc].lon = lon.val]
                   ELSE UNCHANGED sess
                /\ IF loc = "pickup"
                   THEN pc' = "address" /\ side' = "dropoff" /\ UNCHANGED event
                   ELSE IF event.type = "fare"
                   THEN pc' = "fare" /\ side' = "pickup" /\ UNCHANGED event
                   ELSE pc' = "idle" /\ side' = "pickup" /\ event' = NoEvent
                /\ UNCHANGED <<msgs, geo>>
    /\ UNCHANGED <<wText, shown, sug, fareOut, lastSet>>

\* lines 272-295: the Get Fare Prediction button; the run ends after it
Fare ==
    /\ pc = "fare"
    /\ event.type = "fare"
    /\ \E resp \in Responses : fareOut' = request_fare(Params(sess), resp)
    /\ pc' = "idle"
    /\ event' = NoEvent
    /\ UNCHANGED <<sess, wText, wNum, shown, side, geo, sug, msgs, lastSet>>

Next ==
    \/ \E loc \in Locs, t \in TypedTexts : TypeAddress(loc, t)
    \/ \E loc \in Locs, f \in Fields : \E v \in NumberEntries(f) : EditNumber(loc, f, v)
    \/ \E loc \in Locs : ClickSuggestion(loc)
    \/ \E loc \in Locs : ClickSearch(loc)
    \/ ClickFare
    \/ \E loc \in Locs : Address(loc)
    \/ \E loc \in Locs : Search(loc)
    \/ GeoQuery
    \/ \E loc \in Locs : SearchReturn(loc)
    \/ \E loc \in Locs : Numbers(loc)
    \/ Fare

Spec == Init /\ [][Next]_vars

-----------------------------------------------------------------------------
(* The two resolver functions called directly, with any text                *)

CallGeocode(address) ==
    /\ pc = "idle"
    /\ geo' = geocode_enter(address)
    /\ pc' = "call"
    /\ sug' = NoSug
    /\ UNCHANGED <<sess, wText, wNum, shown, event, side, msgs, fareOut, lastSet>>

ReturnGeocode ==
    /\ pc = "call"
    /\ geo.status = "returned"
    /\ pc' = "idle"
    /\ UNCHANGED <<sess, wText, wNum, shown, event, side, geo, sug, msgs, fareOut, lastSet>>

CallSuggest(query, o) ==
    /\ pc = "idle"
    /\ sug' = get_address_suggestions(query, o)
    /\ geo' = NoGeo
    /\ UNCHANGED <<sess, wText, wNum, shown, event, pc, side, msgs, fareOut, lastSet>>

NextResolver ==
    \/ \E address \in Texts : CallGeocode(address)
    \/ GeoQuery
    \/ ReturnGeocode
    \/ \E query \in Texts, o \in GeoOutcomes : CallSuggest(query, o)

SpecResolver == Init /\ [][NextResolver]_vars

-----------------------------------------------------------------------------
(* Properties                                                              *)

InBox(lat, lon) ==
    /\ 40500000 <= lat /\ lat <= 41000000
    /\ -74300000 <= lon /\ lon <= -73700000

Failed(o) == o.kind = "raise"

\* C1: every Location geocode_address returns and every element
\* get_address_suggestions returns lies in the bounding box
\* (40.5 <= lat <= 41.0, -74.3 <= lon <= -73.7); a candidate outside the box
\* is never returned.
C1_ReturnedInBox ==
    /\ \A k \in 1..Len(geo.ret) : InBox(geo.ret[k].lat, geo.ret[k].lon)
    /\ \A k \in 1..Len(sug.ret) : InBox(sug.ret[k].lat, sug.ret[k].lon)
    /\ geo.last.kind = "location"
       /\ ~InBox(geo.last.location.latitude, geo.last.location.longitude)
       => geo.ret = None
    /\ sug.last.kind = "location"
       /\ ~InBox(sug.last.location.latitude, sug.last.location.longitude)
       => sug.ret = <<>>

\* geocode_address has met a candidate with an outside longitude at its last
\* query and returned None
C1_Witness ==
    /\ geo.status = "returned"
    /\ Len(geo.calls) = 4
    /\ geo.last.kind = "location"
    /\ geo.last.location.longitude < -74300000
    /\ geo.ret = None

\* C2: an address that is empty or whose stripped length is below 2 makes
\* geocode_address return None, and a query shorter than 3 makes
\* get_address_suggestions return the empty list, with no provider call.
C2_ShortInputNoCall ==
    /\ geo.status # "none"
       /\ (geo.address = <<>> \/ Len(strip(geo.address)) < 2)
       => geo.status = "returned" /\ geo.calls = <<>> /\ geo.ret = None
    /\ sug.status # "none" /\ Len(sug.query) < 3
       => sug.calls = <<>> /\ sug.ret = <<>>

\* geocode_address has returned for a two-character address that strips to
\* fewer than two
C2_Witness ==
    /\ geo.status = "returned"
    /\ Len(geo.address) = 2
    /\ Len(strip(geo.address)) = 1
    /\ geo.calls = <<>>

\* C3: geocode_address issues its queries in the fixed order (the three
\* NYC-qualified forms, then the raw text), one at a time; it goes on after an
\* empty answer or a candidate outside the box, stops at the first candidate
\* inside the box, which it returns, and returns None when the four queries
\* gave no candidate inside the box.
C3_QueryLadder ==
    geo.status \in {"running", "returned"} =>
    LET a == geo.address
        n == Len(geo.calls)
        ladder == << a \o <<", New York City, USA">>,
                     a \o <<", Manhattan, New York, USA">>,
                     a \o <<", NYC">>,
                     a >>
        lastInside == /\ geo.last.kind = "location"
                      /\ InBox(geo.last.location.latitude,
                               geo.last.location.longitude)
    IN  /\ n <= 4
        /\ \A k \in 1..n : geo.calls[k] = ladder[k]
        /\ geo.status = "running" =>
              /\ n < 4
              /\ n > 0 => ~Failed(geo.last) /\ ~lastInside
        /\ geo.status = "returned" /\ n > 0 /\ ~Failed(geo.last) =>
              IF lastInside
              THEN geo.ret =
                     << [lat |-> geo.last.location.latitude,
                         lon |-> geo.last.location.longitude,
                         address |-> geo.last.location.address] >>
              ELSE n = 4 /\ geo.ret = None
        /\ geo.ret # None => n > 0 /\ lastInside

\* the raw text, tried last, is the query that found the address
C3_Witness ==
    /\ geo.status = "returned"
    /\ Len(geo.calls) = 4
    /\ geo.calls[4] = geo.address
    /\ geo.ret # None

\* C4 (as claimed): a successful Search replaces the session Location in
\* full: latitude, longitude and the address text become those of the
\* resolved Location.
C4_SearchReplacesInFull ==
    event.type = "rerun" /\ event.coords # None =>
    LET coords == event.coords[1]
    IN  /\ sess[event.loc].lat = coords.lat
        /\ sess[event.loc].lon = coords.lon
        /\ sess[event.loc].address_text = coords.address

\* C5 (as claimed): the caller of geocode_address can tell a time-out and an
\* unreachable provider from "no match", for which it gets None.
C5_FailureDistinguishableToCaller ==
    pc = "geo" /\ geo.status = "returned" /\ Failed(geo.last) => geo.ret # None

\* C6: get_address_suggestions never raises and displays nothing; whatever
\* the provider call raises, it returns the empty list; it returns at most 5
\* candidates.
C6_SuggestNeverRaises ==
    /\ ~sug.raised
    /\ sug.emitted = <<>>
    /\ Failed(sug.last) => sug.ret = <<>>
    /\ Len(sug.ret) <= 5

\* the provider call of get_address_suggestions timed out
C6_Witness ==
    /\ sug.status = "returned"
    /\ sug.calls # <<>>
    /\ sug.last.exc = "GeocoderTimedOut"
    /\ sug.ret = <<>>

\* C7 (as claimed): for a 2xx response with a JSON object, the fare is taken
\* from `fare` if present, else from `fare_amount`, and shown rounded to 2
\* decimals; if neither key is present or the value is not a number, the
\* outcome is "unexpected response" with the payload, never anything else.
C7_DecodeOrUnexpected ==
    /\ fareOut.kind # "none"
    /\ fareOut.resp.exc = "none"
    /\ fareOut.resp.status = 200
    /\ fareOut.resp.body.valid
    /\ fareOut.resp.body.isdict
    =>
    LET data == fareOut.resp.body
        found == IF data.fare.t # "absent" THEN data.fare ELSE data.fare_amount
    IN  IF found.t = "number"
        THEN fareOut.kind = "success" /\ fareOut.display = round2(found.n)
        ELSE fareOut.kind = "unexpected response" /\ fareOut.payload = data

C9_SessionInBox ==
    /\ \A loc \in Locs : InBox(sess[loc].lat, sess[loc].lon)
    /\ fareOut.kind # "none" =>
          /\ InBox(fareOut.params.pickup_latitude, fareOut.params.pickup_longitude)
          /\ InBox(fareOut.params.dropoff_latitude, fareOut.params.dropoff_longitude)

\* a coordinate outside the range was typed after an accepted edit and a search
C9_Witness ==
    /\ pc = "idle"
    /\ event.type = "rejected"
    /\ sess["pickup"].lat = 40600000
    /\ sess["dropoff"].lat = 40758000

====
